---- MODULE Spec2Model ----
(***************************************************************************)
(* Verification model of the two notebooks of the repository:              *)
(*   - the movie recommender (merge, column selection, dropna, feature     *)
(*     extraction, tags, TF-IDF, cosine similarity, recommend, and the     *)
(*     app.py variant of recommend);                                       *)
(*   - the spam classifier (dropna / drop_duplicates, label mapping,       *)
(*     TF-IDF fit_transform, train_test_split, LogisticRegression.fit).    *)
(* Every notebook cell is one action; a cell that raises stops the run.    *)
(* Text is kept as TLA+ strings and processed character by character.      *)
(* TF-IDF weights are integers: tf * round(4 * idf); a vector stands for   *)
(* its L2-normalised direction, and cosines are compared exactly by        *)
(* cross-multiplication of these integers.                                 *)
(***************************************************************************)
EXTENDS Integers, Sequences, FiniteSets, TLC

VARIABLES
    pc,          \* recommender notebook: the next cell to run
    movies,      \* DataFrame movies: sequence of rows, each with its index label
    credits,     \* DataFrame credits
    new,         \* DataFrame new[['movie_id','title','tags']]
    vectors,     \* tfidf.fit_transform(new['tags']).toarray(), one row per position
    similarity,  \* cosine_similarity(vectors)
    out,         \* outcome of the last recommend call (either variant)
    df,          \* spam notebook: DataFrame df
    X,           \* spam notebook: vectorizer.fit_transform(df["Message"])
    vectorizer,  \* spam notebook: the fitted vectorizer (vocabulary, fit corpus)
    split,       \* spam notebook: X_train, X_test, y_train, y_test
    model,       \* spam notebook: the LogisticRegression object
    spc,         \* spam notebook: the next cell to run
    err          \* the exception that stopped a run: its type and the cell that raised it

vars == <<pc, movies, credits, new, vectors, similarity, out,
          df, X, vectorizer, split, model, spc, err>>

recVars == <<pc, movies, credits, new, vectors, similarity, out>>
spamVars == <<df, X, vectorizer, split, model, spc>>

----------------------------------------------------------------------------
(* Bounds *)

MaxMovies == 7

----------------------------------------------------------------------------
(* Python str operations, character by character *)

Chars(s) == [i \in 1..Len(s) |-> SubSeq(s, i, i)]

RECURSIVE Str(_)
Str(cs) == IF cs = <<>> THEN "" ELSE Head(cs) \o Str(Tail(cs))

UpperAlpha == Chars("ABCDEFGHIJKLMNOPQRSTUVWXYZ")
LowerAlpha == Chars("abcdefghijklmnopqrstuvwxyz")
Digits == Chars("0123456789")

Range(f) == {f[i] : i \in DOMAIN f}

\* str.lower() on one character
LowerChar(c) ==
    IF c \in Range(UpperAlpha)
    THEN LowerAlpha[CHOOSE i \in 1..26 : UpperAlpha[i] = c]
    ELSE c

\* str.lower()
Lower(s) == Str([i \in 1..Len(s) |-> LowerChar(SubSeq(s, i, i))])

\* the characters str.split() with no argument treats as separators
IsSpace(c) == c \in {" ", "\t", "\n", "\r", "\f"}

\* str.split(): maximal runs of non-whitespace characters
RECURSIVE SplitFrom(_, _, _)
SplitFrom(cs, cur, acc) ==
    IF cs = <<>>
    THEN (IF cur = "" THEN acc ELSE Append(acc, cur))
    ELSE IF IsSpace(Head(cs))
         THEN SplitFrom(Tail(cs), "", IF cur = "" THEN acc ELSE Append(acc, cur))
         ELSE SplitFrom(Tail(cs), cur \o Head(cs), acc)

Split(s) == SplitFrom(Chars(s), "", <<>>)

\* s.replace(" ", ""): only the space character U+0020 is removed
RECURSIVE RemoveChar(_, _)
RemoveChar(cs, c) ==
    IF cs = <<>> THEN ""
    ELSE (IF Head(cs) = c THEN "" ELSE Head(cs)) \o RemoveChar(Tail(cs), c)

ReplaceSpace(s) == RemoveChar(Chars(s), " ")

\* " ".join(x)
RECURSIVE Join(_)
Join(x) ==
    IF x = <<>> THEN ""
    ELSE IF Len(x) = 1 THEN x[1]
    ELSE x[1] \o " " \o Join(Tail(x))

\* [f(i) for i in x]
MapSeq(x, F(_)) == [i \in 1..Len(x) |-> F(x[i])]

----------------------------------------------------------------------------
(* The datasets read by pd.read_csv: a catalogue of movies, each with its  *)
(* row of tmdb_5000_movies.csv and its row of tmdb_5000_credits.csv.  The  *)
(* JSON-like list columns are kept as the lists ast.literal_eval returns.  *)
(* na is the set of columns whose cell is missing (NaN).                   *)

Name(n) == [name |-> n]
Crew(j, n) == [job |-> j, name |-> n]

Film(id, title, overview, genres, keywords, cast, crew, na) ==
    [id |-> id, title |-> title, overview |-> overview, genres |-> genres,
     keywords |-> keywords, cast |-> cast, crew |-> crew, na |-> na]

Catalogue ==
    << Film(1, "A", "action hero save world", <<>>, <<>>, <<>>, <<>>, {}),
       Film(2, "B", "action hero fight villain", <<>>, <<>>, <<>>, <<>>, {"homepage"}),
       Film(3, "C", "romance drama love story", <<>>, <<>>, <<>>, <<>>, {}),
       Film(4, "N", "", <<Name("Drama")>>, <<>>, <<>>, <<>>, {"overview"}),
       Film(5, "Twin", "Save  World", <<Name("Action")>>, <<Name("hero")>>, <<>>, <<>>, {}),
       Film(6, "Z", "the a", <<>>, <<>>, <<>>, <<>>, {}),
       Film(7, "Cast Away", "Hero\tstranded ", <<Name("Science Fiction")>>,
            <<Name("space\ttravel")>>,
            <<Name("Tom Hanks"), Name("Helen Hunt"), Name("Nick Searcy"), Name("Chris Noth")>>,
            <<Crew("Producer", "Tom Hanks"), Crew("Director", "Robert Zemeckis"),
              Crew("Director", "Jack Rapke")>>, {}),
       Film(8, "a", "romance hero", <<>>, <<>>, <<>>, <<Crew("Editor", "Al Jo")>>, {}),
       Film(9, "A", "drama villain", <<>>, <<>>, <<Name("Helen Hunt")>>, <<>>, {}) >>

\* the increasing enumeration of a set of catalogue positions
RECURSIVE Ascending(_)
Ascending(S) ==
    IF S = {} THEN <<>>
    ELSE LET m == CHOOSE x \in S : \A y \in S : x <= y
         IN <<m>> \o Ascending(S \ {m})

MoviesCsv(S) ==
    LET o == Ascending(S)
    IN [p \in 1..Len(o) |->
          LET f == Catalogue[o[p]]
          IN [index |-> p - 1, id |-> f.id, title |-> f.title, overview |-> f.overview,
              genres |-> f.genres, keywords |-> f.keywords, na |-> f.na]]

CreditsCsv(S) ==
    LET o == Ascending(S)
    IN [p \in 1..Len(o) |->
          LET f == Catalogue[o[p]]
          IN [index |-> p - 1, movie_id |-> f.id, title |-> f.title,
              cast |-> f.cast, crew |-> f.crew, na |-> {}]]

Unset == <<>>

\* the outcome of a recommend call: what it returned (Python type and value),
\* what was printed or written, the index it looked up and movies_list
Outcome(variant, q, status, type, value, emitted, index, list) ==
    [variant |-> variant, query |-> q, status |-> status,
     returns |-> [type |-> type, value |-> value],
     emitted |-> emitted, index |-> index, ranked |-> list]

NoError == [type |-> "none", at |-> "none"]

Raised(type, cell) == [type |-> type, at |-> cell]

NoCall == Outcome("none", "", "none", "none", <<>>, <<>>, -1, <<>>)

NoVectorizer == [vocabulary |-> {}, fitted_on |-> <<>>]

NoSplit == [X_train |-> <<>>, X_test |-> <<>>, y_train |-> <<>>, y_test |-> <<>>,
            train |-> <<>>, test |-> <<>>]

RecIdle ==
    /\ pc = "off" /\ movies = Unset /\ credits = Unset /\ new = Unset
    /\ vectors = Unset /\ similarity = Unset /\ out = NoCall

SpamIdle ==
    /\ spc = "off" /\ df = Unset /\ X = Unset /\ vectorizer = NoVectorizer
    /\ split = NoSplit /\ model = "unbound"

\* Cell 2: movies = pd.read_csv(...), credits = pd.read_csv(...)
Init ==
    /\ \E S \in SUBSET (1..Len(Catalogue)) :
          /\ S # {} /\ Cardinality(S) <= MaxMovies
          /\ movies = MoviesCsv(S)
          /\ credits = CreditsCsv(S)
    /\ pc = "merge"
    /\ new = Unset /\ vectors = Unset /\ similarity = Unset /\ out = NoCall
    /\ err = NoError
    /\ SpamIdle

----------------------------------------------------------------------------
(* Cell 4: movies = movies.merge(credits, on='title')                      *)
(* Inner join on equal title: for every left row in order, every right row *)
(* with the same title in order; the result gets a fresh RangeIndex.       *)
(* raw is a history field: the merged cells as read, before the feature    *)
(* cells rewrite them; no cell reads it.                                   *)

RECURSIVE Flatten(_)
Flatten(ss) == IF ss = <<>> THEN <<>> ELSE Head(ss) \o Flatten(Tail(ss))

MergeRows(left, right) ==
    LET matches(l) ==
            LET same(r) == r.title = l.title
                rs == SelectSeq(right, same)
            IN [k \in 1..Len(rs) |->
                  [id |-> l.id, title |-> l.title, overview |-> l.overview,
                   genres |-> l.genres, keywords |-> l.keywords,
                   movie_id |-> rs[k].movie_id, cast |-> rs[k].cast, crew |-> rs[k].crew,
                   na |-> l.na \cup rs[k].na]]
        rows == Flatten([p \in 1..Len(left) |-> matches(left[p])])
    IN [p \in 1..Len(rows) |->
          [index |-> p - 1, id |-> rows[p].id, title |-> rows[p].title,
           overview |-> rows[p].overview, genres |-> rows[p].genres,
           keywords |-> rows[p].keywords, movie_id |-> rows[p].movie_id,
           cast |-> rows[p].cast, crew |-> rows[p].crew, na |-> rows[p].na,
           raw |-> rows[p]]]

Merge ==
    /\ pc = "merge"
    /\ movies' = MergeRows(movies, credits)
    /\ pc' = "select"
    /\ UNCHANGED <<credits, new, vectors, similarity, out, err>>
    /\ UNCHANGED spamVars

(* Cell 5a: movies = movies[['movie_id','title','overview','genres',       *)
(* 'keywords','cast','crew']]: the other columns, and their missing cells, *)
(* are gone; the index is kept.                                            *)
KeptColumns == {"movie_id", "title", "overview", "genres", "keywords", "cast", "crew"}

SelectRow(r) ==
    [index |-> r.index, movie_id |-> r.movie_id, title |-> r.title,
     overview |-> r.overview, genres |-> r.genres, keywords |-> r.keywords,
     cast |-> r.cast, crew |-> r.crew, na |-> r.na \cap KeptColumns, raw |-> r.raw]

SelectColumns ==
    /\ pc = "select"
    /\ movies' = MapSeq(movies, SelectRow)
    /\ pc' = "dropna"
    /\ UNCHANGED <<credits, new, vectors, similarity, out, err>>
    /\ UNCHANGED spamVars

(* Cell 5b: movies.dropna(inplace=True): rows with a missing cell are      *)
(* removed; the surviving rows keep their index labels (no reset_index).   *)
NoMissing(r) == r.na = {}

DropNaRows(rows) == SelectSeq(rows, NoMissing)

DropNa ==
    /\ pc = "dropna"
    /\ movies' = DropNaRows(movies)
    /\ pc' = "extract"
    /\ UNCHANGED <<credits, new, vectors, similarity, out, err>>
    /\ UNCHANGED spamVars

----------------------------------------------------------------------------
(* Cell 6a: extract_names, extract_cast, extract_director                  *)

\* def extract_names(obj): every entry's name
extract_names(obj) == [k \in 1..Len(obj) |-> obj[k].name]

\* def extract_cast(obj): the names of the first 3 entries
CastLimit == 3

\* mutant of extract_cast: the counter is never checked, every name is taken
extract_cast_all(obj) == [k \in 1..Len(obj) |-> obj[k].name]

extract_cast(obj) ==
    [k \in 1..(IF Len(obj) < CastLimit THEN Len(obj) ELSE CastLimit) |-> obj[k].name]

\* def extract_director(obj): the name of the first entry whose job is
\* 'Director' (append, then break), [] when there is none
extract_director(obj) ==
    LET ds == {k \in 1..Len(obj) : obj[k].job = "Director"}
    IN IF ds = {} THEN <<>>
       ELSE <<obj[CHOOSE k \in ds : \A j \in ds : k <= j].name>>

ExtractRow(r) ==
    [r EXCEPT !.genres = extract_names(r.genres),
              !.keywords = extract_names(r.keywords),
              !.cast = extract_cast(r.cast),
              !.crew = extract_director(r.crew)]

ExtractFeatures ==
    /\ pc = "extract"
    /\ movies' = MapSeq(movies, ExtractRow)
    /\ pc' = "strip"
    /\ UNCHANGED <<credits, new, vectors, similarity, out, err>>
    /\ UNCHANGED spamVars

(* Cell 6b: overview.split(); i.replace(" ","") on every genre, keyword,   *)
(* cast and crew name                                                      *)
StripRow(r) ==
    [r EXCEPT !.overview = Split(r.overview),
              !.genres = MapSeq(r.genres, ReplaceSpace),
              !.keywords = MapSeq(r.keywords, ReplaceSpace),
              !.cast = MapSeq(r.cast, ReplaceSpace),
              !.crew = MapSeq(r.crew, ReplaceSpace)]

SplitAndStrip ==
    /\ pc = "strip"
    /\ movies' = MapSeq(movies, StripRow)
    /\ pc' = "tags"
    /\ UNCHANGED <<credits, new, vectors, similarity, out, err>>
    /\ UNCHANGED spamVars

(* Cell 7: movies['tags'] = overview + genres + keywords + cast + crew;    *)
(* new = movies[['movie_id','title','tags']]; tags = " ".join(tags)        *)
TagList(r) == r.overview \o r.genres \o r.keywords \o r.cast \o r.crew

NewRow(r) ==
    [index |-> r.index, movie_id |-> r.movie_id, title |-> r.title,
     tags |-> Join(TagList(r)), raw |-> r.raw]

CreateTags ==
    /\ pc = "tags"
    /\ new' = MapSeq(movies, NewRow)
    /\ pc' = "lower"
    /\ UNCHANGED <<movies, credits, vectors, similarity, out, err>>
    /\ UNCHANGED spamVars

(* Cell 8: new['tags'] = new['tags'].apply(lambda x: x.lower())            *)
LowerRow(r) == [r EXCEPT !.tags = Lower(r.tags)]

LowerTags ==
    /\ pc = "lower"
    /\ new' = MapSeq(new, LowerRow)
    /\ pc' = "vectorize"
    /\ UNCHANGED <<movies, credits, vectors, similarity, out, err>>
    /\ UNCHANGED spamVars

----------------------------------------------------------------------------
(* Cell 9: tfidf = TfidfVectorizer(max_features=5000, stop_words='english')*)
(*         vectors = tfidf.fit_transform(new['tags']).toarray()            *)

\* \w of the default token_pattern r"(?u)\b\w\w+\b"
IsWordChar(c) == c \in Range(UpperAlpha) \cup Range(LowerAlpha) \cup Range(Digits) \cup {"_"}

\* re.findall(token_pattern, s): the maximal runs of word characters ...
RECURSIVE WordRuns(_, _, _)
WordRuns(cs, cur, acc) ==
    IF cs = <<>>
    THEN (IF cur = "" THEN acc ELSE Append(acc, cur))
    ELSE IF IsWordChar(Head(cs))
         THEN WordRuns(Tail(cs), cur \o Head(cs), acc)
         ELSE WordRuns(Tail(cs), "", IF cur = "" THEN acc ELSE Append(acc, cur))

\* ... of two characters or more
LongEnough(w) == Len(w) >= 2

\* the entries of sklearn's ENGLISH_STOP_WORDS that occur in the datasets
StopWords == {"the", "and", "of", "to", "in", "is", "for", "now", "are", "you"}

NotStopWord(w) == w \notin StopWords

\* build_analyzer(): lowercase, tokenize, drop the stop words
Analyze(doc) ==
    SelectSeq(SelectSeq(WordRuns(Chars(Lower(doc)), "", <<>>), LongEnough), NotStopWord)

max_features == 5000

Count(t, toks) == Cardinality({k \in 1..Len(toks) : toks[k] = t})

\* the vocabulary: every term of the corpus; with more than max_features terms
\* only the max_features most frequent ones are kept
\* (cap 0 stands for max_features=None: no cap)
Vocabulary(docs, cap) ==
    LET all == UNION {Range(docs[p]) : p \in 1..Len(docs)}
        freq(t) == Cardinality({p \in 1..Len(docs) : t \in Range(docs[p])})
    IN IF cap = 0 \/ Cardinality(all) <= cap THEN all
       ELSE CHOOSE V \in SUBSET all :
              /\ Cardinality(V) = cap
              /\ \A t \in V, u \in all \ V : freq(t) >= freq(u)

\* round(4 * idf) for idf = ln((1 + n) / (1 + df)) + 1 (smooth_idf), by n and df
IdfTable ==
    << <<4>>,
       <<6, 4>>,
       <<7, 5, 4>>,
       <<8, 6, 5, 4>>,
       <<8, 7, 6, 5, 4>>,
       <<9, 7, 6, 5, 5, 4>>,
       <<10, 8, 7, 6, 5, 5, 4>>,
       <<10, 8, 7, 6, 6, 5, 4, 4>>,
       <<10, 9, 8, 7, 6, 5, 5, 4, 4>>,
       <<11, 9, 8, 7, 6, 6, 5, 5, 4, 4>>,
       <<11, 10, 8, 8, 7, 6, 6, 5, 5, 4, 4>>,
       <<11, 10, 9, 8, 7, 6, 6, 5, 5, 5, 4, 4>> >>

Idf(n, dfreq) == IdfTable[n][dfreq]

\* fit_transform: one weight per vocabulary term and document, tf * idf; the
\* L2 normalisation keeps the direction, which is all the cosine reads
FitTransform(texts, cap) ==
    LET docs == MapSeq(texts, Analyze)
        V == Vocabulary(docs, cap)
        dfreq(t) == Cardinality({p \in 1..Len(docs) : t \in Range(docs[p])})
    IN [p \in 1..Len(docs) |->
          [t \in V |-> Count(t, docs[p]) * Idf(Len(docs), dfreq(t))]]

TagsOf(r) == r.tags

EmptyVocabulary(texts) == Vocabulary(MapSeq(texts, Analyze), 0) = {}

\* fit_transform raises ValueError("empty vocabulary; ...") when no term is left
Vectorize ==
    /\ pc = "vectorize"
    /\ IF EmptyVocabulary(MapSeq(new, TagsOf))
       THEN /\ err' = Raised("ValueError", "vectorize")
            /\ pc' = "failed"
            /\ UNCHANGED vectors
       ELSE /\ vectors' = FitTransform(MapSeq(new, TagsOf), max_features)
            /\ pc' = "similarity"
            /\ UNCHANGED err
    /\ UNCHANGED <<movies, credits, new, similarity, out>>
    /\ UNCHANGED spamVars

(* Cell 10: similarity = cosine_similarity(vectors)                        *)

RECURSIVE SumOver(_, _)
SumOver(S, f) ==
    IF S = {} THEN 0
    ELSE LET t == CHOOSE x \in S : TRUE
         IN f[t] + SumOver(S \ {t}, f)

Dot(u, v) == SumOver(DOMAIN u, [t \in DOMAIN u |-> u[t] * v[t]])

\* The entry for documents x and y is the cosine dot / sqrt(nx * ny), kept as
\* its three integers; an all-zero vector is normalised to itself, cosine 0.
CosineSimilarity(vs) ==
    [i \in 1..Len(vs) |->
       [j \in 1..Len(vs) |->
          [dot |-> Dot(vs[i], vs[j]), nx |-> Dot(vs[i], vs[i]), ny |-> Dot(vs[j], vs[j])]]]

Similarity ==
    /\ pc = "similarity"
    /\ similarity' = CosineSimilarity(vectors)
    /\ pc' = "ready"
    /\ UNCHANGED <<movies, credits, new, vectors, out, err>>
    /\ UNCHANGED spamVars

----------------------------------------------------------------------------
(* Cell 11: def recommend(movie), and recommend of app.py with its caller  *)

\* the titles a user types
Queries ==
    {"A", "a", "B", "C", "N", "Twin", "TWIN", "Z", "Cast Away", "Nonexistent Movie"}

NonZero(n) == IF n = 0 THEN 1 ELSE n

\* For two entries e, f of one row of similarity (same nx): cosine(e) > cosine(f)
KeyGT(e, f) == e.dot * e.dot * NonZero(f.ny) > f.dot * f.dot * NonZero(e.ny)

KeyEQ(e, f) == e.dot * e.dot * NonZero(f.ny) = f.dot * f.dot * NonZero(e.ny)

\* mutant of SortedDesc: reverse=True forgotten, ascending by key
SortedAsc(distances) ==
    LET n == Len(distances)
        before(j, i) == \/ KeyGT(distances[i], distances[j])
                        \/ KeyEQ(distances[j], distances[i]) /\ j < i
    IN [r \in 1..n |->
          (CHOOSE i \in 1..n : Cardinality({j \in 1..n : before(j, i)}) = r - 1) - 1]

\* sorted(list(enumerate(distances)), reverse=True, key=lambda x: x[1]):
\* descending by key; the sort is stable, also under reverse=True, so equal
\* keys stay in enumeration order.  The result lists 0-based positions i[0].
SortedDesc(distances) ==
    LET n == Len(distances)
        before(j, i) == \/ KeyGT(distances[j], distances[i])
                        \/ KeyEQ(distances[j], distances[i]) /\ j < i
    IN [r \in 1..n |->
          (CHOOSE i \in 1..n : Cardinality({j \in 1..n : before(j, i)}) = r - 1) - 1]

\* the slice [1:6]
SliceStart == 1
SliceStop == 6

Slice(xs) ==
    LET hi == IF Len(xs) < SliceStop THEN Len(xs) ELSE SliceStop
    IN IF hi <= SliceStart THEN <<>> ELSE SubSeq(xs, SliceStart + 1, hi)

\* mutant of TitleMatches: the title is compared without lowercasing it
TitleMatchesCaseSensitive(row, movie) == row.title = movie

\* movie not in new['title'].str.lower().values
TitleMatches(row, movie) == Lower(row.title) = movie

NotInTitles(movie) == \A p \in 1..Len(new) : ~TitleMatches(new[p], movie)

\* new[new['title'].str.lower() == movie].index[0]: the index LABEL of the
\* first matching row
LookupIndex(movie) ==
    new[CHOOSE p \in 1..Len(new) :
          /\ TitleMatches(new[p], movie)
          /\ \A k \in 1..(p - 1) : ~TitleMatches(new[k], movie)].index

\* similarity[index] is positional: out of range raises IndexError
InBounds(index) == index < Len(similarity)

\* movies_list
MoviesList(index) == Slice(SortedDesc(similarity[index + 1]))

\* new.iloc[i[0]].title: positional again
IlocTitle(i) == new[i + 1].title

Titles(list) == [k \in 1..Len(list) |-> IlocTitle(list[k])]

\* the Python type of what recommend returns: the notebook returns a str
\* message or (implicitly) None, app.py a list either way
ReturnType(variant, status) ==
    IF variant = "app" THEN "list"
    ELSE IF status = "notfound" THEN "str" ELSE "NoneType"

\* the notebook's recommend: returns a message string when the title is not
\* found, otherwise prints the titles and returns None
Recommend(q) ==
    /\ pc = "ready"
    /\ LET movie == Lower(q)
       IN out' =
            IF NotInTitles(movie)
            THEN Outcome("notebook", q, "notfound", ReturnType("notebook", "notfound"),
                         <<"Movie not found. Please check the spelling.">>, <<>>, -1, <<>>)
            ELSE LET index == LookupIndex(movie)
                 IN IF ~InBounds(index)
                    THEN Outcome("notebook", q, "IndexError", "raise", <<>>, <<>>, index, <<>>)
                    ELSE Outcome("notebook", q, "found", ReturnType("notebook", "found"), <<>>,
                                 Titles(MoviesList(index)), index, MoviesList(index))
    /\ UNCHANGED <<pc, movies, credits, new, vectors, similarity, err>>
    /\ UNCHANGED spamVars

\* app.py: recommend returns ["Movie not found"] or the list of titles, and
\* the caller writes every item of the returned list with st.write
AppRecommend(q) ==
    /\ pc = "ready"
    /\ LET movie == Lower(q)
       IN out' =
            IF NotInTitles(movie)
            THEN Outcome("app", q, "notfound", ReturnType("app", "notfound"),
                         <<"Movie not found">>, <<"Movie not found">>, -1, <<>>)
            ELSE LET index == LookupIndex(movie)
                 IN IF ~InBounds(index)
                    THEN Outcome("app", q, "IndexError", "raise", <<>>, <<>>, index, <<>>)
                    ELSE Outcome("app", q, "found", ReturnType("app", "found"), Titles(MoviesList(index)),
                                 Titles(MoviesList(index)), index, MoviesList(index))
    /\ UNCHANGED <<pc, movies, credits, new, vectors, similarity, err>>
    /\ UNCHANGED spamVars

----------------------------------------------------------------------------
Next ==
    \/ Merge
    \/ SelectColumns
    \/ DropNa
    \/ ExtractFeatures
    \/ SplitAndStrip
    \/ CreateTags
    \/ LowerTags
    \/ Vectorize
    \/ Similarity
    \/ \E q \in Queries : Recommend(q)
    \/ \E q \in Queries : AppRecommend(q)

Spec == Init /\ [][Next]_vars

----------------------------------------------------------------------------
(* Properties of the recommender, checked under Spec                       *)

MinOf(S) == CHOOSE x \in S : \A y \in S : x <= y

Called == out.status # "none"

\* the rows of new whose title equals the query, ignoring case (1-based)
Matching == {p \in 1..Len(new) : Lower(new[p].title) = Lower(out.query)}

\* the 0-based position of the queried document: the first such row
QueriedPos == MinOf(Matching) - 1

\* C1: the result of recommend(title) never contains the queried document
\* itself, also when another document has an identical vector or the queried
\* vector is all-zero.
C1_SelfExclusion ==
    out.status = "found" => QueriedPos \notin Range(out.ranked)

\* C2: for a query that equals no title ignoring case, recommend returns a
\* result whose type differs from the type of a successful result, so that
\* no string has to be parsed, and it emits nothing.
C2_NotFoundIsDistinct ==
    (Called /\ Matching = {}) =>
        /\ out.status = "notfound"
        /\ out.returns.type # ReturnType(out.variant, "found")
        /\ out.emitted = <<>>

\* C3: for a title present in a corpus of N documents recommend yields a
\* sequence of titles of length min(5, N - 1), at most 5.
C3_ResultLength ==
    (Called /\ Matching # {}) =>
        /\ out.status = "found"
        /\ Len(out.emitted) <= SliceStop - SliceStart
        /\ Len(out.emitted) =
             (IF Len(new) - 1 < SliceStop - SliceStart
              THEN Len(new) - 1 ELSE SliceStop - SliceStart)

\* C4: the yielded documents are in descending order of their similarity to
\* the queried document, equal scores in ascending corpus index order, and no
\* omitted document other than the queried one scores strictly higher than a
\* yielded one.
C4_DescendingStable ==
    out.status = "found" =>
        LET row == similarity[QueriedPos + 1]
            r == out.ranked
            omitted == ((0..(Len(new) - 1)) \ Range(r)) \ {QueriedPos}
        IN /\ \A k, l \in 1..Len(r) :
                k < l => /\ ~KeyGT(row[r[l] + 1], row[r[k] + 1])
                         /\ KeyEQ(row[r[l] + 1], row[r[k] + 1]) => r[k] < r[l]
           /\ \A o \in omitted, y \in Range(r) : ~KeyGT(row[o + 1], row[y + 1])

\* C5: the lookup is a case-insensitive exact match: the query is found iff
\* some lowercased title equals the lowercased query, and it resolves to the
\* first such document in corpus order.
C5_CaseInsensitiveFirstMatch ==
    Called =>
        /\ out.status = "notfound" <=> Matching = {}
        /\ Matching # {} => out.index = new[MinOf(Matching)].index

C5_Witness ==
    /\ Called
    /\ Cardinality(Matching) >= 2
    /\ new[MinOf(Matching)].title # out.query
    /\ out.index = new[MinOf(Matching)].index

\* the 3-movie corpus of end-to-end scenario 1
Scenario1 ==
    /\ pc = "ready"
    /\ Len(new) = 3
    /\ new[1].title = "A" /\ new[1].tags = "action hero save world"
    /\ new[2].title = "B" /\ new[2].tags = "action hero fight villain"
    /\ new[3].title = "C" /\ new[3].tags = "romance drama love story"

\* C6: on the corpus of scenario 1, recommend("A") ranks B above C; B scores
\* above 0 and C scores 0.
C6_Scenario1 ==
    (Scenario1 /\ Called /\ out.query = "A") =>
        /\ out.status = "found"
        /\ out.emitted = <<"B", "C">>
        /\ similarity[1][2].dot > 0
        /\ similarity[1][3].dot = 0

C6_Witness ==
    Scenario1 /\ out.query = "A" /\ out.status = "found" /\ out.variant = "notebook"

\* the cells that follow the lowercasing of tags
TagsBuilt == pc \in {"vectorize", "similarity", "ready", "failed"}

WithoutSpaces(s) == Str(SelectSeq(Chars(s), LAMBDA c : c # " "))

HasSpace(s) == \E i \in 1..Len(s) : SubSeq(s, i, i) = " "

HasWhitespace(s) == \E i \in 1..Len(s) : IsSpace(SubSeq(s, i, i))

NamesOf(list) == [k \in 1..Len(list) |-> WithoutSpaces(list[k].name)]

FirstCast(cast) == SubSeq(cast, 1, IF Len(cast) < 3 THEN Len(cast) ELSE 3)

FirstDirector(crew) ==
    LET ds == SelectSeq(crew, LAMBDA e : e.job = "Director")
    IN IF ds = <<>> THEN <<>> ELSE <<Head(ds)>>

\* the name tokens the tags of a merged row are assembled from
NameTokens(raw) ==
    NamesOf(raw.genres) \o NamesOf(raw.keywords) \o NamesOf(FirstCast(raw.cast))
        \o NamesOf(FirstDirector(raw.crew))

ExpectedTags(raw) == Lower(Join(Split(raw.overview) \o NameTokens(raw)))

\* C9 (amended): the tags of every row are the lowercased, space-joined
\* concatenation of the overview words, the genre names, the keyword names,
\* the first at most 3 cast names and the first director's name, every name
\* with its space characters removed, so that no name holds a space.
C9_TagsAssembly ==
    TagsBuilt =>
        \A p \in 1..Len(new) :
            /\ new[p].tags = ExpectedTags(new[p].raw)
            /\ \A k \in 1..Len(NameTokens(new[p].raw)) :
                  ~HasSpace(NameTokens(new[p].raw)[k])

\* C9 as claimed: ... every name is a single whitespace-free token.
C9_WhitespaceFreeTokens ==
    TagsBuilt =>
        \A p \in 1..Len(new) :
            /\ new[p].tags = ExpectedTags(new[p].raw)
            /\ \A k \in 1..Len(NameTokens(new[p].raw)) :
                  ~HasWhitespace(NameTokens(new[p].raw)[k])

C9_Witness ==
    /\ pc = "ready"
    /\ \E p \in 1..Len(new) :
          /\ new[p].title = "Cast Away"
          /\ Len(new[p].raw.cast) > 3
          /\ new[p].tags = "hero stranded sciencefiction space\ttravel tomhanks helenhunt nicksearcy robertzemeckis"

\* C10: for every title present in the corpus, the similarity row that
\* recommend ranks is the row of the document with that title: the index
\* taken from the title table is that document's position, and it is within
\* the bounds of the matrix.
C10_IndexAlignment ==
    (Called /\ Matching # {}) =>
        /\ out.index = QueriedPos
        /\ out.index < Len(similarity)

\* the cells that follow the creation of the corpus new
CorpusBuilt == pc \in {"lower", "vectorize", "similarity", "ready", "failed"}

\* C11: after the merge on title, every corpus row pairs the metadata of one
\* movie (the id of the movies table) with the cast and crew of that same
\* movie (the movie_id of the credits table), and no movie appears in the
\* corpus twice, also when two distinct movies share a title.
C11_MergeIntegrity ==
    CorpusBuilt =>
        /\ \A p \in 1..Len(new) : new[p].raw.id = new[p].raw.movie_id
        /\ \A p, q \in 1..Len(new) : new[p].raw.id = new[q].raw.id => p = q

----------------------------------------------------------------------------
(* The spam notebook.  df = pd.read_csv("mail_data.csv"): rows of Category *)
(* and Message; na is the set of columns whose cell is missing.            *)

MaxRows == 3

Mail(c, m, na) == [Category |-> c, Message |-> m, na |-> na]

MailPool ==
    { Mail("spam", "win free prize now", {}),
      Mail("ham", "let's meet for coffee", {}),
      Mail("Spam", "Free lottery", {}),
      Mail("ham", "", {"Message"}),
      Mail("", "hello", {"Category"}),
      Mail("ham", "the and", {}) }

RECURSIVE SeqsUpTo(_, _)
SeqsUpTo(S, n) ==
    IF n = 0 THEN {<<>>}
    ELSE LET shorter == SeqsUpTo(S, n - 1)
         IN shorter \cup {Append(s, x) : s \in shorter, x \in S}

SpamInit ==
    /\ df \in SeqsUpTo(MailPool, MaxRows)
    /\ spc = "clean"
    /\ X = Unset /\ vectorizer = NoVectorizer /\ split = NoSplit
    /\ model = "unbound"
    /\ err = NoError
    /\ RecIdle

(* Cell 2.3: df.dropna(inplace=True); df.drop_duplicates(inplace=True)     *)
\* drop_duplicates keeps the first of equal rows
DropDuplicates(rows) ==
    LET first(p) == \A k \in 1..(p - 1) : rows[k] # rows[p]
        keep == {p \in 1..Len(rows) : first(p)}
    IN MapSeq(Ascending(keep), LAMBDA p : rows[p])

Clean ==
    /\ spc = "clean"
    /\ df' = DropDuplicates(DropNaRows(df))
    /\ spc' = "label"
    /\ UNCHANGED <<X, vectorizer, split, model, err>>
    /\ UNCHANGED recVars

(* Cell 3.1: df["label"] = df["Category"].map({"spam": 1, "ham": 0}): a    *)
(* Category that is no key of the dict maps to NaN                         *)
NaN == -1

LabelOf(category) ==
    IF category = "spam" THEN 1
    ELSE IF category = "ham" THEN 0
    ELSE NaN

LabelRow(r) == [Category |-> r.Category, Message |-> r.Message, na |-> r.na,
                label |-> LabelOf(r.Category)]

MapLabels ==
    /\ spc = "label"
    /\ df' = MapSeq(df, LabelRow)
    /\ spc' = "vectorize"
    /\ UNCHANGED <<X, vectorizer, split, model, err>>
    /\ UNCHANGED recVars

(* Cell 3.2: vectorizer = TfidfVectorizer(min_df=1, stop_words='english')  *)
(*           X = vectorizer.fit_transform(df["Message"])                   *)
MessageOf(r) == r.Message

SpamVectorize ==
    /\ spc = "vectorize"
    /\ IF EmptyVocabulary(MapSeq(df, MessageOf))
       THEN /\ err' = Raised("ValueError", "vectorize")
            /\ spc' = "failed"
            /\ UNCHANGED <<X, vectorizer>>
       ELSE /\ X' = FitTransform(MapSeq(df, MessageOf), 0)
            /\ vectorizer' = [vocabulary |-> Vocabulary(MapSeq(MapSeq(df, MessageOf), Analyze), 0),
                              fitted_on |-> MapSeq(df, MessageOf)]
            /\ spc' = "split"
            /\ UNCHANGED err
    /\ UNCHANGED <<df, split, model>>
    /\ UNCHANGED recVars

(* Cell 4.1: train_test_split(X, df["label"], test_size=0.2,               *)
(* random_state=42)                                                        *)
\* test_size = 0.2 = TestNum / TestDen; n_test = ceil(test_size * n)
TestNum == 1
TestDen == 5

NTest(n) == (n * TestNum + TestDen - 1) \div TestDen

\* RandomState(42).permutation(n) for n = 1..6 (0-based positions)
Permutation42 ==
    << <<0>>,
       <<1, 0>>,
       <<0, 1, 2>>,
       <<1, 3, 0, 2>>,
       <<1, 4, 2, 0, 3>>,
       <<0, 1, 5, 2, 4, 3>> >>

\* ShuffleSplit: test = permutation[:n_test], train = permutation[n_test:]
TestIndices(n) == SubSeq(Permutation42[n], 1, NTest(n))
TrainIndices(n) == SubSeq(Permutation42[n], NTest(n) + 1, n)

\* ValueError: the resulting train set will be empty
TrainSetEmpty(n) == n - NTest(n) <= 0

TrainTestSplit ==
    /\ spc = "split"
    /\ LET n == Len(df)
       IN IF TrainSetEmpty(n)
          THEN /\ err' = Raised("ValueError", "split")
               /\ spc' = "failed"
               /\ UNCHANGED split
          ELSE /\ split' =
                    [X_train |-> MapSeq(TrainIndices(n), LAMBDA i : X[i + 1]),
                     X_test |-> MapSeq(TestIndices(n), LAMBDA i : X[i + 1]),
                     y_train |-> MapSeq(TrainIndices(n), LAMBDA i : df[i + 1].label),
                     y_test |-> MapSeq(TestIndices(n), LAMBDA i : df[i + 1].label),
                     train |-> TrainIndices(n), test |-> TestIndices(n)]
               /\ spc' = "train"
               /\ UNCHANGED err
    /\ UNCHANGED <<df, X, vectorizer, model>>
    /\ UNCHANGED recVars

(* Cell 4.2: model = LogisticRegression(); model.fit(X_train, y_train)     *)
\* fit validates y first: NaN in y raises ValueError, fewer than two classes
\* raises ValueError; nothing is fitted before the validation passes
FitRejects(y) == NaN \in Range(y) \/ Cardinality(Range(y)) < 2

Train ==
    /\ spc = "train"
    /\ IF FitRejects(split.y_train)
       THEN /\ model' = "unfitted"
            /\ err' = Raised("ValueError", "fit")
            /\ spc' = "failed"
       ELSE /\ model' = "fitted"
            /\ spc' = "done"
            /\ UNCHANGED err
    /\ UNCHANGED <<df, X, vectorizer, split>>
    /\ UNCHANGED recVars

SpamNext ==
    \/ Clean
    \/ MapLabels
    \/ SpamVectorize
    \/ TrainTestSplit
    \/ Train

SpamSpec == SpamInit /\ [][SpamNext]_vars

----------------------------------------------------------------------------
(* Properties of the spam notebook, checked under SpamSpec                 *)

\* model.fit(X_train, y_train) is about to be called, or has been called
HandedToTraining == spc = "train" \/ err.at = "fit" \/ spc = "done"

\* C7: every label handed to classifier training is 0 or 1, "spam" mapped to
\* 1 and "ham" to 0; no row reaches training with a missing or other label.
C7_BinaryLabels ==
    HandedToTraining =>
        /\ \A k \in 1..Len(split.y_train) : split.y_train[k] \in {0, 1}
        /\ \A p \in 1..Len(df) :
              /\ df[p].Category = "spam" => df[p].label = 1
              /\ df[p].Category = "ham" => df[p].label = 0

\* C8: training (the split and the fit) that fails, fails with
\* LabelMismatchError or EmptyTrainingSetError, EmptyTrainingSetError when
\* the training set is empty, as when cleaning leaves no rows, and a failed
\* run leaves no fitted model behind.
C8_TypedTrainingErrors ==
    /\ err.at \in {"split", "fit"} =>
          /\ err.type \in {"LabelMismatchError", "EmptyTrainingSetError"}
          /\ TrainSetEmpty(Len(df)) => err.type = "EmptyTrainingSetError"
    /\ (spc = "failed" /\ Len(df) = 0) => err.type = "EmptyTrainingSetError"
    /\ spc = "failed" => model # "fitted"

\* the messages of the held-out test split of train_test_split
TestMessages == {df[split.test[k] + 1].Message : k \in 1..Len(split.test)}

\* C12: the vocabulary and idf table are fitted before the data is split
\* and transformed, and no message of the held-out test split belongs to the
\* corpus the vectorizer was fitted on; the test messages are only
\* transformed with the frozen vocabulary and idf table.
C12_HeldOutIndependence ==
    split # NoSplit =>
        /\ vectorizer # NoVectorizer
        /\ TestMessages \cap Range(vectorizer.fitted_on) = {}

====
